---------------------------- MODULE Spec2Model ----------------------------
(***************************************************************************)
(* run-parts (Rust): the orchestrator of src/main.rs (main, run,           *)
(* act_on_file) and the tagged-multiplexer child executor (exec, write,    *)
(* Report, Status) of src/exec.rs, src/lib.rs and src/main.rs.             *)
(*                                                                         *)
(* The repository holds exec/write twice: the library's (src/exec.rs) and  *)
(* the binary's own copy (src/main.rs).  The two differ in `write`; the    *)
(* variable `build` says which of them a behaviour runs.                   *)
(*                                                                         *)
(* Bytes are integers 0..255, byte strings are sequences of them.          *)
(***************************************************************************)
EXTENDS Integers, Sequences, FiniteSets, TLC

VARIABLES
    build,      \* "lib": exec/write of src/exec.rs; "bin": those of src/main.rs
    opt,        \* Opt: the command-line flags
    files,      \* files_to_process of run(): the sorted, filtered paths
    idx,        \* position of run()'s for loop in files
    pc,         \* position of the main (consumer) thread
    status,     \* Status.exit_code
    exitCode,   \* the code the process ended with, NoExit while it runs
    report,     \* the Report of the current exec call
    mux,        \* the Mux of the current exec call: chunks in flight, per producer
    child,      \* the child process of the current exec call
    watcher,    \* the completion-watcher thread of the current exec call
    stdout,     \* bytes exec wrote to the stdout destination in this invocation
    stderr,     \* bytes exec wrote to the stderr destination in this invocation
    sent,       \* history: payloads each producer wrote in this invocation
    readLog,    \* history: chunks mux.read() returned in this invocation
    acts,       \* history: what act_on_file did for each file it was called on
    failed,     \* history: some invocation of this run resolved to a non-zero status
    stopCode    \* history: the first non-zero status resolved under --exit-on-error

vars == <<build, opt, files, idx, pc, status, exitCode, report, mux, child,
          watcher, stdout, stderr, sent, readLog, acts, failed, stopCode>>

---------------------------------------------------------------------------
(* Bounds of the model *)

\* number of directory entries
NumFiles == 2
\* number of chunks one child writes to its stdout and stderr together
MaxWrites == 2

(* Program constants *)

\* exitcode::OK
OK == 0
\* exitcode::SOFTWARE
SOFTWARE == 70
\* exitcode::USAGE
USAGE == 64
\* exit code of a Rust process whose main thread panicked (unwrap on Err)
PANIC == 101
\* the "+ 128" of the signal encoding
SIGNAL_BASE == 128
\* b'\n'
NL == 10
\* b':'
COLON == 58
\* u8 has 2^8 values
U8 == 256

NoExit == 0 - 1

\* exit codes the modelled children end with (std::process::ExitStatus::code)
ExitCodes == {0, 42, 255}
\* signals the modelled children are killed by (ExitStatusExt::signal);
\* WTERMSIG is a 7-bit field, 127 is its largest value
Signals == {9, 127}

Tags == {"none", "e", "d"}

---------------------------------------------------------------------------
(* Byte strings *)

RECURSIVE Concat(_)
\* the concatenation of a sequence of byte strings
Concat(ss) == IF ss = <<>> THEN <<>> ELSE Head(ss) \o Concat(Tail(ss))

\* s[i..] starts with p
StartsAt(s, p, i) ==
    /\ i + Len(p) - 1 <= Len(s)
    /\ \A k \in 1..Len(p) : s[i + k - 1] = p[k]

\* number of positions of s at which p occurs
Occurrences(s, p) == Cardinality({i \in 1..Len(s) : StartsAt(s, p, i)})

\* the chunks of log tagged t, in order
SelectTag(log, t) == SelectSeq(log, LAMBDA c : c.tag = t)

RECURSIVE Payloads(_)
\* the payloads of a sequence of chunks
Payloads(log) == IF log = <<>> THEN <<>> ELSE <<Head(log).data>> \o Payloads(Tail(log))

\* fp.to_str(): the path of directory entry f, "/1", "/2", ...
PathBytes(f) == <<47, 48 + f>>

\* what the child writes with its k-th write call: "i", "j\n", "k", ...
\* (distinct per call; odd calls write a single byte)
ChildPayload(k) == IF k % 2 = 1 THEN <<104 + k>> ELSE <<104 + k, NL>>

\* "Error: "
ErrorHead == <<69, 114, 114, 111, 114, 58, 32>>
\* the text {:?} formats the io::Error of a failed wait to, e.g. "Os"
ErrorDebug == <<79, 115>>

---------------------------------------------------------------------------
(* src/lib.rs, src/main.rs: Status and Report *)

\* A reset that leaves the register as it is.
reset_keeps(st) == st

\* Status::reset
reset(st) == OK

\* Report::new
Report_new(o, f) ==
    [report_string |-> PathBytes(f), report |-> o.report,
     verbose |-> o.verbose, used |-> FALSE]

\* A get_report that marks the report used only when it returns the prefix.
get_report_unused_when_suppressed(rep, condition) ==
    IF rep.used THEN [rep |-> rep, ret |-> <<>>]
    ELSE IF condition
         THEN [rep |-> [rep EXCEPT !.used = TRUE], ret |-> <<rep.report_string>>]
         ELSE [rep |-> rep, ret |-> <<>>]

\* A get_report that never marks the report used.
get_report_never_used(rep, condition) ==
    IF rep.used THEN [rep |-> rep, ret |-> <<>>]
    ELSE [rep |-> rep,
          ret |-> IF condition THEN <<rep.report_string>> ELSE <<>>]

\* Report::get_report: Option<&String> is <<>> (None) or <<s>> (Some(s))
get_report(rep, condition) ==
    IF rep.used THEN [rep |-> rep, ret |-> <<>>]
    ELSE [rep |-> [rep EXCEPT !.used = TRUE],
          ret |-> IF condition THEN <<rep.report_string>> ELSE <<>>]

\* Report::out_report
out_report(rep) == get_report(rep, rep.report)

\* An err_report that does not look at verbose.
err_report_ignores_verbose(rep) == get_report(rep, rep.report)

\* Report::err_report
err_report(rep) == get_report(rep, rep.report /\ ~rep.verbose)

---------------------------------------------------------------------------
(* write: what a destination holds after write(w, data, report) *)

\* write of src/exec.rs
write_lib(w, data, rep) ==
    w \o (IF rep # <<>> THEN rep[1] \o <<COLON, NL>> ELSE <<>>) \o data

\* write of src/main.rs
write_bin(w, data, rep) ==
    w \o (IF rep # <<>> THEN rep[1] \o <<NL>> ELSE <<>>) \o data \o <<NL>>

\* the write the build links
write(b, w, data, rep) ==
    IF b = "lib" THEN write_lib(w, data, rep) ELSE write_bin(w, data, rep)

---------------------------------------------------------------------------
(* The multiplexer (crate io_mux): one queue of chunks per producer.  A    *)
(* producer's chunks stay in its write order; which producer the next read *)
(* delivers from is not determined.                                        *)

\* Mux::new
Mux_new == [t \in Tags |-> <<>>]

\* a write of `data` by the producer tagged t: one chunk per write call
mux_write(m, t, data) == [m EXCEPT ![t] = Append(@, data)]

\* the producers mux.read() can deliver from
mux_ready(m) == {t \in Tags : m[t] # <<>>}

\* A read that delivers a producer's newest chunk.
mux_read_newest(m, t) ==
    [chunk |-> [tag |-> t, data |-> m[t][Len(m[t])]],
     mux |-> [m EXCEPT ![t] = SubSeq(@, 1, Len(@) - 1)]]

\* mux.read() delivering from producer t: TaggedData { tag, data }
mux_read(m, t) ==
    [chunk |-> [tag |-> t, data |-> Head(m[t])],
     mux |-> [m EXCEPT ![t] = Tail(@)]]

---------------------------------------------------------------------------
(* exec: the completion watcher's encoding of the exit status *)

\* x as u8
as_u8(x) == x % U8

\* The encoding without the signal offset.
exit_code_no_offset(st) == as_u8(st.n)

\* The encoding with the offset applied to exit codes too.
exit_code_offset_always(st) == as_u8(as_u8(st.n) + SIGNAL_BASE)

\* exec.rs 22-26: st is the ExitStatus, [kind |-> "code", n |-> c] when
\* status.code() is Some(c), [kind |-> "signal", n |-> s] when it is None
\* and status.signal() is Some(s).  The u8 sum wraps (release build).
exit_code(st) ==
    IF st.kind = "code" THEN as_u8(st.n)
    ELSE as_u8(as_u8(st.n) + SIGNAL_BASE)

\* the u8 addition of exec.rs 25 exceeds the type
overflows(st) == st.kind = "signal" /\ as_u8(st.n) + SIGNAL_BASE >= U8

\* exec.rs 27: the write calls of done_sender.write_all(&[exit_code])
done_writes(st) == << <<exit_code(st)>> >>

\* exec.rs 30: the write calls of writeln!(done_sender, "Error: {:?}", e).
\* io::Write::write_fmt hands each piece of the format string and each
\* fragment the argument's formatter produces to write_all separately, and
\* every write call on a sender is one chunk.
error_writes == <<ErrorHead, ErrorDebug, <<NL>> >>

\* the whole text writeln! formats
error_text == Concat(error_writes)

---------------------------------------------------------------------------
(* exec: the read loop *)

\* A loop that takes any one-byte chunk for the done-chunk, whatever its tag.
loop_body_done_by_length(b, s, chunk) ==
    IF Len(chunk.data) = 1
    THEN [s EXCEPT !.status = chunk.data[1], !.running = FALSE]
    ELSE IF chunk.tag = "d"
    THEN [s EXCEPT !.stderr = @ \o chunk.data,
                   !.status = SOFTWARE, !.running = FALSE]
    ELSE IF chunk.tag = "none"
    THEN LET r == out_report(s.report)
         IN [s EXCEPT !.stdout = write(b, @, chunk.data, r.ret),
                      !.report = r.rep]
    ELSE LET r == err_report(s.report)
         IN [s EXCEPT !.stderr = write(b, @, chunk.data, r.ret),
                      !.report = r.rep]

\* A loop whose error arm lacks the break: it reads on after a done-chunk
\* that is not one byte long.
loop_body_no_break_on_error(b, s, chunk) ==
    IF chunk.tag = "d" /\ Len(chunk.data) = 1
    THEN [s EXCEPT !.status = chunk.data[1], !.running = FALSE]
    ELSE IF chunk.tag = "d"
    THEN [s EXCEPT !.stderr = @ \o chunk.data, !.status = SOFTWARE]
    ELSE IF chunk.tag = "none"
    THEN LET r == out_report(s.report)
         IN [s EXCEPT !.stdout = write(b, @, chunk.data, r.ret),
                      !.report = r.rep]
    ELSE LET r == err_report(s.report)
         IN [s EXCEPT !.stderr = write(b, @, chunk.data, r.ret),
                      !.report = r.rep]

\* exec.rs 42-54: one pass of the loop on the chunk mux.read() returned.
\* s holds what the pass can change: status, stdout, stderr, report and
\* whether the loop goes on (no break).
loop_body(b, s, chunk) ==
    IF chunk.tag = "d" /\ Len(chunk.data) = 1
    THEN [s EXCEPT !.status = chunk.data[1], !.running = FALSE]
    ELSE IF chunk.tag = "d"
    THEN [s EXCEPT !.stderr = @ \o chunk.data,
                   !.status = SOFTWARE, !.running = FALSE]
    ELSE IF chunk.tag = "none"
    THEN LET r == out_report(s.report)
         IN [s EXCEPT !.stdout = write(b, @, chunk.data, r.ret),
                      !.report = r.rep]
    ELSE LET r == err_report(s.report)
         IN [s EXCEPT !.stderr = write(b, @, chunk.data, r.ret),
                      !.report = r.rep]

---------------------------------------------------------------------------
(* run: find_files and the skip test of act_on_file *)

RECURSIVE Insert(_, _)
\* s, sorted, with x put in its place
Insert(s, x) ==
    IF s = <<>> THEN <<x>>
    ELSE IF x <= Head(s) THEN <<x>> \o s
    ELSE <<Head(s)>> \o Insert(Tail(s), x)

RECURSIVE sort(_)
\* Vec::sort on paths (path f sorts by f)
sort(s) == IF s = <<>> THEN <<>> ELSE Insert(sort(Tail(s)), Head(s))

\* Vec::reverse
reverse(s) == [i \in 1..Len(s) |-> s[Len(s) + 1 - i]]

\* find_files: entries is the order read_dir yields the paths in
find_files(o, entries) ==
    IF o.reverse THEN reverse(sort(entries)) ELSE sort(entries)

\* the orders read_dir can yield the directory's NumFiles entries in
ReadDirOrders ==
    {s \in [1..NumFiles -> 1..NumFiles] : \A i, j \in 1..NumFiles : i # j => s[i] # s[j]}

\* An exit-on-error test that never stops.
exit_on_error_never(o, st) == FALSE

\* main.rs 211: act_on_file returns at once
exit_on_error_stop(o, st) == o.exit_on_error /\ st # OK

---------------------------------------------------------------------------
(* The state machine *)

Flags == [report : BOOLEAN, verbose : BOOLEAN, exit_on_error : BOOLEAN,
          list : BOOLEAN, test : BOOLEAN, reverse : BOOLEAN]

NoChild == [state |-> "none", writes |-> 0, st |-> [kind |-> "code", n |-> 0]]
NoWatcher == [pc |-> "none", res |-> "none", pending |-> <<>>]
NoSent == [t \in Tags |-> <<>>]

\* main.rs 322-324: the process has parsed its options
Init ==
    /\ build \in {"lib", "bin"}
    /\ opt \in Flags
    /\ files = <<>>
    /\ idx = 1
    /\ pc = "main"
    /\ status = OK
    /\ exitCode = NoExit
    /\ report = Report_new(opt, 1)
    /\ mux = Mux_new
    /\ child = NoChild
    /\ watcher = NoWatcher
    /\ stdout = <<>>
    /\ stderr = <<>>
    /\ sent = NoSent
    /\ readLog = <<>>
    /\ acts = <<>>
    /\ failed = FALSE
    /\ stopCode = NoExit

execVars == <<report, mux, child, watcher, stdout, stderr, sent, readLog>>

\* main.rs 325-327: usage_error ends the process with exitcode::USAGE
MainUsageError ==
    /\ pc = "main"
    /\ opt.list /\ opt.test
    /\ pc' = "exited"
    /\ exitCode' = USAGE
    /\ UNCHANGED <<build, opt, files, idx, status, acts, failed, stopCode>>
    /\ UNCHANGED execVars

\* main.rs 328-333, 304: find_files fails (read_dir), run returns Err
MainRunErr ==
    /\ pc = "main"
    /\ ~(opt.list /\ opt.test)
    /\ pc' = "exited"
    /\ exitCode' = SOFTWARE
    /\ UNCHANGED <<build, opt, files, idx, status, acts, failed, stopCode>>
    /\ UNCHANGED execVars

\* main.rs 303-306: find_files, the filter, Status::new.  read_dir yields the
\* entries in any order; the directory holds the NumFiles entries that
\* filter_file accepts.
RunStart ==
    /\ pc = "main"
    /\ ~(opt.list /\ opt.test)
    /\ \E entries \in ReadDirOrders : files' = find_files(opt, entries)
    /\ idx' = 1
    /\ status' = OK
    /\ pc' = "run"
    /\ UNCHANGED <<build, opt, exitCode, acts, failed, stopCode>>
    /\ UNCHANGED execVars

AtFile == pc = "run" /\ idx <= Len(files)

Act(f, what) == [file |-> f, what |-> what]

\* main.rs 211-213: --exit-on-error and a non-zero status: nothing is done
ActSkip ==
    /\ AtFile
    /\ exit_on_error_stop(opt, status)
    /\ idx' = idx + 1
    /\ acts' = Append(acts, Act(files[idx], "skip"))
    /\ UNCHANGED <<build, opt, files, pc, status, exitCode>>
    /\ UNCHANGED execVars
    /\ UNCHANGED <<failed, stopCode>>

\* main.rs 214-218: --list prints the name
ActList ==
    /\ AtFile
    /\ ~exit_on_error_stop(opt, status)
    /\ opt.list
    /\ status' = reset(status)
    /\ idx' = idx + 1
    /\ acts' = Append(acts, Act(files[idx], "list"))
    /\ UNCHANGED <<build, opt, files, pc, exitCode>>
    /\ UNCHANGED execVars
    /\ UNCHANGED <<failed, stopCode>>

\* main.rs 214-221: the file is not executable
ActNotExecutable ==
    /\ AtFile
    /\ ~exit_on_error_stop(opt, status)
    /\ ~opt.list
    /\ status' = reset(status)
    /\ idx' = idx + 1
    /\ acts' = Append(acts, Act(files[idx], "nonexec"))
    /\ UNCHANGED <<build, opt, files, pc, exitCode>>
    /\ UNCHANGED execVars
    /\ UNCHANGED <<failed, stopCode>>

\* main.rs 214-225: --test prints the name of an executable file
ActTest ==
    /\ AtFile
    /\ ~exit_on_error_stop(opt, status)
    /\ ~opt.list
    /\ opt.test
    /\ status' = reset(status)
    /\ idx' = idx + 1
    /\ acts' = Append(acts, Act(files[idx], "test"))
    /\ UNCHANGED <<build, opt, files, pc, exitCode>>
    /\ UNCHANGED execVars
    /\ UNCHANGED <<failed, stopCode>>

\* main.rs 214-231: act_on_file resets the status, passes the list,
\* executable and test checks and calls exec
ActExec ==
    /\ AtFile
    /\ ~exit_on_error_stop(opt, status)
    /\ ~opt.list
    /\ ~opt.test
    /\ status' = reset(status)
    /\ pc' = "exec"
    /\ UNCHANGED <<build, opt, files, idx, exitCode, acts, failed, stopCode>>
    /\ UNCHANGED execVars

\* An exec that swallows the spawn error: it returns Ok(()) and the run
\* goes on to the next file.
ActSpawnFail_swallowed ==
    /\ pc = "exec"
    /\ pc' = "run"
    /\ idx' = idx + 1
    /\ acts' = Append(acts, Act(files[idx], "spawnfail"))
    /\ UNCHANGED <<build, opt, files, status, exitCode, failed, stopCode>>
    /\ UNCHANGED execVars

\* exec.rs 12-18: Mux::new, a sender or spawn fails: `?` returns the Err to
\* act_on_file before anything else happens
ActSpawnFail ==
    /\ pc = "exec"
    /\ pc' = "spawn_failed"
    /\ acts' = Append(acts, Act(files[idx], "spawnfail"))
    /\ UNCHANGED <<build, opt, files, idx, status, exitCode, failed, stopCode>>
    /\ UNCHANGED execVars

\* main.rs 231: unwrap on the Err exec returned panics
UnwrapPanic ==
    /\ pc = "spawn_failed"
    /\ pc' = "crashed"
    /\ exitCode' = PANIC
    /\ UNCHANGED <<build, opt, files, idx, status, acts, failed, stopCode>>
    /\ UNCHANGED execVars

\* exec.rs 12-38: the child runs, the watcher waits on it, the consumer
\* enters the read loop
ActSpawn ==
    /\ pc = "exec"
    /\ pc' = "loop"
    /\ report' = Report_new(opt, files[idx])
    /\ mux' = Mux_new
    /\ child' = [NoChild EXCEPT !.state = "running"]
    /\ watcher' = [NoWatcher EXCEPT !.pc = "wait"]
    /\ stdout' = <<>>
    /\ stderr' = <<>>
    /\ sent' = NoSent
    /\ readLog' = <<>>
    /\ acts' = Append(acts, Act(files[idx], "exec"))
    /\ UNCHANGED <<build, opt, files, idx, status, exitCode, failed, stopCode>>

\* the child writes a chunk to its stdout (t = "none") or stderr (t = "e")
ChildWrite(t) ==
    /\ pc = "loop"
    /\ child.state = "running"
    /\ child.writes < MaxWrites
    /\ LET data == ChildPayload(child.writes + 1)
       IN /\ mux' = mux_write(mux, t, data)
          /\ sent' = [sent EXCEPT ![t] = Append(@, data)]
    /\ child' = [child EXCEPT !.writes = @ + 1]
    /\ UNCHANGED <<build, opt, files, idx, pc, status, exitCode, report,
                   watcher, stdout, stderr, readLog, acts, failed, stopCode>>

\* the child exits with code c
ChildExit(c) ==
    /\ child.state = "running"
    /\ child' = [child EXCEPT !.state = "exited", !.st = [kind |-> "code", n |-> c]]
    /\ UNCHANGED <<build, opt, files, idx, pc, status, exitCode, report, mux,
                   watcher, stdout, stderr, sent, readLog, acts, failed, stopCode>>

\* the child is killed by signal s
ChildKilled(s) ==
    /\ child.state = "running"
    /\ child' = [child EXCEPT !.state = "exited", !.st = [kind |-> "signal", n |-> s]]
    /\ UNCHANGED <<build, opt, files, idx, pc, status, exitCode, report, mux,
                   watcher, stdout, stderr, sent, readLog, acts, failed, stopCode>>

\* A wait that returns while the child still runs (try_wait in its place).
wait_returns_early(ch) == ch.state \in {"running", "exited"}

\* exec.rs 20: child.wait() blocks until the child has terminated
wait_returns(ch) == ch.state = "exited"

\* A watcher that also stores the exit code in the status register itself.
WatcherWaitOk_sets_status ==
    /\ watcher.pc = "wait"
    /\ wait_returns(child)
    /\ watcher' = [pc |-> "write", res |-> "ok", pending |-> done_writes(child.st)]
    /\ status' = exit_code(child.st)
    /\ UNCHANGED <<build, opt, files, idx, pc, exitCode, report, mux,
                   child, stdout, stderr, sent, readLog, acts, failed, stopCode>>

\* exec.rs 20-26: child.wait() returns Ok(status)
WatcherWaitOk ==
    /\ watcher.pc = "wait"
    /\ wait_returns(child)
    /\ watcher' = [pc |-> "write", res |-> "ok", pending |-> done_writes(child.st)]
    /\ UNCHANGED <<build, opt, files, idx, pc, status, exitCode, report, mux,
                   child, stdout, stderr, sent, readLog, acts, failed, stopCode>>

\* exec.rs 20, 29: child.wait() returns Err(e); how the child ended stays
\* unknown to the program
WatcherWaitErr ==
    /\ watcher.pc = "wait"
    /\ wait_returns(child)
    /\ watcher' = [pc |-> "write", res |-> "err", pending |-> error_writes]
    /\ child' = [child EXCEPT !.st = NoChild.st]
    /\ UNCHANGED <<build, opt, files, idx, pc, status, exitCode, report, mux,
                   stdout, stderr, sent, readLog, acts, failed, stopCode>>

\* exec.rs 27, 30: one write call on done_sender; the Mux lives until exec returns
WatcherWrite ==
    /\ watcher.pc = "write"
    /\ pc \in {"loop", "terminated"}
    /\ LET data == Head(watcher.pending)
       IN /\ mux' = mux_write(mux, "d", data)
          /\ sent' = [sent EXCEPT !["d"] = Append(@, data)]
    /\ watcher' = [watcher EXCEPT
                     !.pending = Tail(@),
                     !.pc = IF Tail(watcher.pending) = <<>> THEN "done" ELSE "write"]
    /\ UNCHANGED <<build, opt, files, idx, pc, status, exitCode, report,
                   child, stdout, stderr, readLog, acts, failed, stopCode>>

\* exec.rs 27, 30: a write call on done_sender fails; `let _ =` drops the
\* error and the thread ends
WatcherWriteFail ==
    /\ watcher.pc = "write"
    /\ watcher' = [watcher EXCEPT !.pending = <<>>, !.pc = "done"]
    /\ UNCHANGED <<build, opt, files, idx, pc, status, exitCode, report, mux,
                   child, stdout, stderr, sent, readLog, acts, failed, stopCode>>

\* what one pass of the loop reads and changes
LoopState == [status |-> status, stdout |-> stdout, stderr |-> stderr,
              report |-> report, running |-> TRUE]

\* exec.rs 40-55: mux.read() returns a chunk and the loop handles it
ConsumerRead ==
    /\ pc = "loop"
    /\ \E t \in mux_ready(mux) :
         LET r == mux_read(mux, t)
             s == loop_body(build, LoopState, r.chunk)
         IN /\ mux' = r.mux
            /\ readLog' = Append(readLog, r.chunk)
            /\ status' = s.status
            /\ stdout' = s.stdout
            /\ stderr' = s.stderr
            /\ report' = s.report
            /\ pc' = IF s.running THEN "loop" ELSE "terminated"
    /\ UNCHANGED <<build, opt, files, idx, exitCode, child, watcher, sent, acts, failed, stopCode>>

\* the exec call's state is gone with the process
ExecGone ==
    /\ report' = Report_new(opt, 1)
    /\ mux' = Mux_new
    /\ child' = NoChild
    /\ watcher' = NoWatcher
    /\ stdout' = <<>>
    /\ stderr' = <<>>
    /\ sent' = NoSent
    /\ readLog' = <<>>

\* exec.rs 41, main.rs 231: mux.read() fails, exec returns Err, unwrap panics
ReadFail ==
    /\ pc = "loop"
    /\ pc' = "crashed"
    /\ exitCode' = PANIC
    /\ ExecGone
    /\ UNCHANGED <<build, opt, files, idx, status, acts, failed, stopCode>>

\* exec.rs 48, 61-64, main.rs 231: the write of a chunk to its destination
\* fails: unwrap panics in write, or exec returns Err from the done branch
\* and unwrap panics in act_on_file
OutputFail ==
    /\ pc = "loop"
    /\ \E t \in mux_ready(mux) :
         ~(t = "d" /\ Len(mux_read(mux, t).chunk.data) = 1)
    /\ pc' = "crashed"
    /\ exitCode' = PANIC
    /\ ExecGone
    /\ UNCHANGED <<build, opt, files, idx, status, acts, failed, stopCode>>

\* exec.rs 56, main.rs 231-239: exec returns Ok(()) and drops its Mux and
\* Report, act_on_file returns; the invocation is over
ExecReturn ==
    /\ pc = "terminated"
    /\ pc' = "run"
    /\ idx' = idx + 1
    /\ failed' = (failed \/ status # OK)
    /\ stopCode' = IF opt.exit_on_error /\ status # OK /\ stopCode = NoExit
                   THEN status ELSE stopCode
    /\ ExecGone
    /\ UNCHANGED <<build, opt, files, status, exitCode, acts>>

\* main.rs 307-310, 329: the loop is over, process::exit(status.exit_code)
MainExit ==
    /\ pc = "run"
    /\ idx > Len(files)
    /\ pc' = "exited"
    /\ exitCode' = status
    /\ UNCHANGED <<build, opt, files, idx, status, acts, failed, stopCode>>
    /\ UNCHANGED execVars

Next ==
    \/ MainUsageError
    \/ MainRunErr
    \/ RunStart
    \/ ActSkip
    \/ ActList
    \/ ActNotExecutable
    \/ ActTest
    \/ ActExec
    \/ ActSpawnFail
    \/ UnwrapPanic
    \/ ActSpawn
    \/ \E t \in {"none", "e"} : ChildWrite(t)
    \/ \E c \in ExitCodes : ChildExit(c)
    \/ \E s \in Signals : ChildKilled(s)
    \/ WatcherWaitOk
    \/ WatcherWaitErr
    \/ WatcherWrite
    \/ WatcherWriteFail
    \/ ConsumerRead
    \/ ReadFail
    \/ OutputFail
    \/ ExecReturn
    \/ MainExit

Spec == Init /\ [][Next]_vars

---------------------------------------------------------------------------
(* What the claims speak of *)

\* an exec call is in or just past its read loop
InExec == pc \in {"loop", "terminated"}

\* the stdout and stderr chunks the loop has forwarded, in read order
Forwarded == SelectSeq(readLog, LAMBDA c : c.tag # "d")

\* the path of the file the current exec call runs
CurPath == PathBytes(files[idx])

\* how often the path prefix stands in the invocation's output
PrefixCount == Occurrences(stdout, CurPath) + Occurrences(stderr, CurPath)

\* the bytes of the destination the chunk tagged t goes to
Dest(t) == IF t = "none" THEN stdout ELSE stderr

\* the watcher saw the child end normally with code c
ExitedWith(c) ==
    watcher.res = "ok" /\ child.st = [kind |-> "code", n |-> c]

\* the watcher saw the child killed by signal s
KilledBy(s) ==
    watcher.res = "ok" /\ child.st = [kind |-> "signal", n |-> s]

---------------------------------------------------------------------------
(* C1 *)

\* C1: when the watcher's wait reports a normal exit with code c, the status
\* register holds exactly c once the read loop has terminated, whatever
\* stdout and stderr chunks were read before the done-chunk.
C1_ExitCodeResolved ==
    \A c \in ExitCodes : (pc = "terminated" /\ ExitedWith(c)) => status = c

\* exit 42 after a stdout and a stderr chunk were forwarded
C1_Witness ==
    /\ pc = "terminated"
    /\ ExitedWith(42)
    /\ status = 42
    /\ SelectTag(readLog, "none") # <<>>
    /\ SelectTag(readLog, "e") # <<>>

(* C2 *)

\* C2: for a child killed by signal s the only payload the watcher writes to
\* the done producer is the single byte 128 + s, the resolved status is
\* 128 + s, and the sum does not exceed 255 (the u8 addition does not wrap).
C2_SignalEncoding ==
    \A s \in Signals :
        KilledBy(s) =>
            /\ s + SIGNAL_BASE < U8
            /\ ~overflows(child.st)
            /\ \A i \in 1..Len(sent["d"]) : sent["d"][i] = <<SIGNAL_BASE + s>>
            /\ \A i \in 1..Len(watcher.pending) :
                   watcher.pending[i] = <<SIGNAL_BASE + s>>
            /\ (pc = "terminated" => status = SIGNAL_BASE + s)

\* signal 9 resolved to 137
C2_Witness ==
    /\ pc = "terminated"
    /\ KilledBy(9)
    /\ sent["d"] = << <<137>> >>
    /\ status = 137

(* C3 *)

\* C3: if the watcher's wait fails, then once the read loop has terminated
\* the status is exitcode::SOFTWARE and the complete error text the watcher
\* formatted stands verbatim in the stderr output.
C3_WaitErrorTextVerbatim ==
    (pc = "terminated" /\ watcher.res = "err") =>
        /\ status = SOFTWARE
        /\ Occurrences(stderr, error_text) >= 1

(* C4 *)

\* C4 as claimed: with reporting enabled and both streams forwarded, the path
\* prefix stands exactly once in the combined output, whatever verbose is.
C4_PrefixExactlyOnce ==
    (/\ InExec
     /\ opt.report
     /\ SelectTag(readLog, "none") # <<>>
     /\ SelectTag(readLog, "e") # <<>>) => PrefixCount = 1

\* C4 amended: with reporting enabled the path prefix stands exactly once in
\* the combined output once a chunk has been forwarded, in every arrival
\* order, provided verbose is off or the first chunk forwarded is a stdout
\* chunk; with verbose on and a stderr chunk forwarded first it stands
\* nowhere, and it stands nowhere before the first chunk is forwarded.
C4_PrefixOnceUnlessSuppressed ==
    (InExec /\ opt.report) =>
        PrefixCount =
            IF Forwarded # <<>> /\ (~opt.verbose \/ Forwarded[1].tag = "none")
            THEN 1 ELSE 0

\* both streams forwarded, stderr first, verbose off: one prefix
C4_Witness ==
    /\ InExec
    /\ opt.report /\ ~opt.verbose
    /\ Len(Forwarded) = 2
    /\ Forwarded[1].tag = "e"
    /\ Forwarded[2].tag = "none"
    /\ PrefixCount = 1

(* C5 *)

\* C5: with reporting disabled, stdout holds exactly the concatenation, in
\* read order, of the payloads of the untagged chunks read, and stderr
\* exactly that of the "e" chunks read.
C5_PassThroughExact ==
    (InExec /\ ~opt.report) =>
        /\ stdout = Concat(Payloads(SelectTag(readLog, "none")))
        /\ stderr = Concat(Payloads(SelectTag(readLog, "e")))

(* C6 *)

\* C6: with reporting enabled and a child that writes to stdout only, stdout
\* holds the path, ":\n" and then the payloads read, and nothing else.
C6_ReportStdoutOnly ==
    (/\ InExec
     /\ opt.report
     /\ sent["e"] = <<>>
     /\ SelectTag(readLog, "none") # <<>>) =>
        stdout = CurPath \o <<COLON, NL>>
                   \o Concat(Payloads(SelectTag(readLog, "none")))

(* C7 *)

\* C7: for every producer, the payloads the consumer has read from it,
\* followed by those still in flight, are exactly the payloads it wrote, in
\* its write order: nothing lost, duplicated, reordered or moved to another
\* producer's tag, under every interleaving.
C7_PerProducerFifo ==
    InExec =>
        \A t \in Tags : Payloads(SelectTag(readLog, t)) \o mux[t] = sent[t]

\* the stdout producer's two chunks were read in its write order while the
\* done producer had written its chunk
C7_Witness ==
    /\ InExec
    /\ Len(readLog) = 2
    /\ readLog[1] = [tag |-> "none", data |-> ChildPayload(1)]
    /\ readLog[2] = [tag |-> "none", data |-> ChildPayload(2)]
    /\ mux["d"] # <<>>

(* C8 *)

\* C8: no failure local to one invocation (spawn, wait, multiplexer read,
\* write to a destination) crashes the process.
C8_NeverCrashes == pc # "crashed"

(* C9 *)

\* C9, the states: under --exit-on-error, once an invocation has resolved to
\* a non-zero status the register keeps that status, no exec call is under
\* way, the process exits with it; and a child only runs when no earlier
\* invocation resolved to non-zero.
C9_StopState ==
    opt.exit_on_error =>
        /\ InExec => ~failed
        /\ failed => stopCode # OK /\ stopCode # NoExit
        /\ stopCode # NoExit =>
               /\ status = stopCode
               /\ pc \in {"run", "exited"}
               /\ child.state = "none"
               /\ pc = "exited" => exitCode = stopCode

\* C9, the steps: under --exit-on-error, after the first non-zero status a
\* step executes, lists and resets nothing: it skips a file or exits.
C9_StopStep ==
    (opt.exit_on_error /\ stopCode # NoExit) =>
        /\ status' = status
        /\ stopCode' = stopCode
        /\ UNCHANGED execVars
        /\ \/ acts' = acts
           \/ acts' = Append(acts, Act(files[idx], "skip"))

\* C9: with --exit-on-error, once some invocation resolves to a non-zero
\* status no later file is executed, listed or reset and the process exits
\* with that first non-zero status; every child spawned was preceded only by
\* invocations that resolved to 0.
C9_ExitOnError == [](C9_StopState) /\ [][C9_StopStep]_vars

\* the first file exited 42, the second was skipped, the process exited 42
C9_Witness ==
    /\ opt.exit_on_error
    /\ pc = "exited"
    /\ stopCode = 42
    /\ exitCode = 42
    /\ Len(acts) = 2
    /\ acts[1].what = "exec"
    /\ acts[2].what = "skip"

(* C10 *)

\* C10, the states: the flag is used exactly when a stdout or stderr chunk
\* has been forwarded; the prefix stands at most once in the output, and if
\* it stands it opens the stream of the first chunk forwarded, is followed
\* (after the separator) by that chunk's bytes, and the other stream holds
\* none.
C10_FlagState ==
    InExec =>
        /\ report.used <=> Forwarded # <<>>
        /\ PrefixCount <= 1
        /\ PrefixCount = 1 =>
               LET first == Forwarded[1]
               IN /\ Forwarded # <<>>
                  /\ StartsAt(Dest(first.tag), CurPath, 1)
                  /\ \E k \in 1..2 :
                         StartsAt(Dest(first.tag), first.data, Len(CurPath) + k + 1)
                  /\ Occurrences(Dest(IF first.tag = "none" THEN "e" ELSE "none"),
                                 CurPath) = 0

\* C10, the steps: within one invocation the flag never moves back.
C10_FlagStep ==
    (InExec /\ report.used /\ pc' \in {"loop", "terminated"}) => report'.used

\* C10: the report flag is one-shot: it moves from unused to used on the
\* first stdout or stderr chunk forwarded and never back; the prefix is
\* emitted at most once per invocation, to the stream of the first chunk
\* forwarded and before that chunk's bytes.
C10_ReportOneShot == [](C10_FlagState) /\ [][C10_FlagStep]_vars

\* a stderr chunk then a stdout chunk were forwarded, the prefix opened stderr
C10_Witness ==
    /\ InExec
    /\ report.used
    /\ Len(Forwarded) = 2
    /\ Forwarded[1].tag = "e"
    /\ Forwarded[2].tag = "none"
    /\ PrefixCount = 1
    /\ StartsAt(stderr, CurPath, 1)

---------------------------------------------------------------------------
(* C11 *)

\* the consumer has handled one more chunk in this step
C11_Reads == pc = "loop" /\ Len(readLog') = Len(readLog) + 1

\* C11, the steps: the loop goes from RUNNING to TERMINATED only in a step
\* that reads a chunk tagged "d", and every such read ends it; a read of a
\* stdout or stderr chunk leaves the loop running and the status as it was,
\* appends the chunk's bytes to its destination and leaves the other
\* destination alone.
C11_Step ==
    /\ (pc = "loop" /\ pc' = "terminated") =>
           (C11_Reads /\ readLog'[Len(readLog')].tag = "d")
    /\ C11_Reads =>
           LET c == readLog'[Len(readLog')]
               old == Dest(c.tag)
               new == IF c.tag = "none" THEN stdout' ELSE stderr'
           IN IF c.tag = "d"
              THEN pc' = "terminated"
              ELSE /\ pc' = "loop"
                   /\ status' = status
                   /\ SubSeq(new, 1, Len(old)) = old
                   /\ \E p \in (Len(old) + 1)..Len(new) : StartsAt(new, c.data, p)
                   /\ c.tag = "none" => stderr' = stderr
                   /\ c.tag = "e" => stdout' = stdout

\* C11: the read loop leaves RUNNING for TERMINATED on, and only on, the
\* receipt of a chunk tagged "d"; every stdout or stderr chunk read before
\* that is forwarded to its destination, none is dropped, and no such chunk
\* ends the loop or changes the status register.
C11_LoopEndsOnDoneOnly == [][C11_Step]_vars

\* two chunks were forwarded, one to each destination, then the done-chunk
\* ended the loop
C11_Witness ==
    /\ pc = "terminated"
    /\ Len(readLog) = 3
    /\ readLog[3].tag = "d"
    /\ Len(Forwarded) = 2
    /\ stdout # <<>>
    /\ stderr # <<>>
    /\ watcher.res = "ok"

---------------------------------------------------------------------------
(* C12 *)

\* C12: the watcher writes to the "d" producer at most once per invocation,
\* on the success path and on the wait-failure path alike, and only after
\* its wait has returned and the child has exited; a loop that has
\* terminated has seen exactly one done-chunk produced.
C12_ExactlyOneDoneChunk ==
    InExec =>
        /\ Len(sent["d"]) <= 1
        /\ sent["d"] # <<>> => (watcher.res # "none" /\ child.state = "exited")
        /\ pc = "terminated" => Len(sent["d"]) = 1

---------------------------------------------------------------------------
(* C13 *)

\* C13, the states: the loop reads nothing past a done-chunk: while it runs
\* no chunk read is tagged "d", and once it has terminated the done-chunk is
\* the last chunk read.
C13_State ==
    InExec =>
        \A i \in 1..Len(readLog) :
            readLog[i].tag = "d" => (pc = "terminated" /\ i = Len(readLog))

\* C13, the steps: after TERMINATED nothing is read or forwarded; exec
\* returns and the chunks still in the multiplexer go with it.
C13_Step ==
    pc = "terminated" =>
        \/ /\ pc' = "terminated"
           /\ UNCHANGED <<readLog, stdout, stderr, status>>
           /\ mux'["none"] = mux["none"]
           /\ mux'["e"] = mux["e"]
        \/ /\ pc' = "run"
           /\ mux' = Mux_new
           /\ readLog' = <<>>
           /\ status' = status

\* C13: the consumer can read the done-chunk and terminate while chunks the
\* child wrote before it exited are still unread (the truncation state of
\* C13_Witness is reachable); those chunks are never forwarded, and no chunk
\* is read or forwarded after TERMINATED.
C13_Truncation == [](C13_State) /\ [][C13_Step]_vars

\* the loop has terminated, nothing was forwarded, and the chunks the child
\* wrote to stdout and stderr before it exited are still in the multiplexer
C13_Witness ==
    /\ pc = "terminated"
    /\ watcher.res = "ok"
    /\ Len(sent["none"]) = 1
    /\ Len(sent["e"]) = 1
    /\ mux["none"] = sent["none"]
    /\ mux["e"] = sent["e"]
    /\ Forwarded = <<>>
    /\ stdout = <<>>
    /\ stderr = <<>>

---------------------------------------------------------------------------
(* C14 *)

\* C14, the states: where exec has returned the spawn error there is no
\* child, no watcher, no chunk written to any producer, nothing read and
\* nothing written to stdout or stderr.
C14_State ==
    pc = "spawn_failed" =>
        /\ child = NoChild
        /\ watcher = NoWatcher
        /\ sent = NoSent
        /\ mux = Mux_new
        /\ readLog = <<>>
        /\ stdout = <<>>
        /\ stderr = <<>>

\* C14, the steps: an exec call that does not enter the read loop hands the
\* error to its caller with the status as it was on entry and nothing else
\* changed; the caller holding the error never goes on as after a success.
C14_Step ==
    /\ (pc = "exec" /\ pc' # "loop") =>
           (pc' = "spawn_failed" /\ status' = status /\ UNCHANGED execVars)
    /\ pc = "spawn_failed" =>
           (pc' = "crashed" /\ status' = status /\ UNCHANGED execVars)

\* C14: when spawning fails exec returns the error to its caller, not
\* swallowed, and leaves everything else as it was: the status keeps its
\* value on entry, no watcher is started, no done-chunk is written, the
\* read loop is not entered and nothing is written to stdout or stderr.
C14_SpawnFailure == [](C14_State) /\ [][C14_Step]_vars

\* spawning the second file failed after the first one ran
C14_Witness ==
    /\ pc = "spawn_failed"
    /\ idx = 2
    /\ Len(acts) = 2
    /\ acts[1].what = "exec"
    /\ acts[2].what = "spawnfail"

---------------------------------------------------------------------------
(* C15 *)

\* C15: the prefix is written to stderr only when reporting is on and
\* verbose is off: with report and verbose both on no invocation writes the
\* prefix to stderr, and with report off no invocation writes it to either
\* stream.
C15_PrefixOnStderr ==
    InExec =>
        /\ Occurrences(stderr, CurPath) > 0 => (opt.report /\ ~opt.verbose)
        /\ ~opt.report => PrefixCount = 0

\* report and verbose are on, the first chunk forwarded was a stderr chunk
\* and stderr holds it without the prefix
C15_Witness ==
    /\ InExec
    /\ opt.report
    /\ opt.verbose
    /\ Forwarded # <<>>
    /\ Forwarded[1].tag = "e"
    /\ stderr # <<>>
    /\ Occurrences(stderr, CurPath) = 0

---------------------------------------------------------------------------
(* C16 *)

\* the child comes to its end
ChildEnds == (\E c \in ExitCodes : ChildExit(c)) \/ (\E g \in Signals : ChildKilled(g))

\* a step of the watcher thread: its wait returns, or it makes its next
\* write call, which succeeds or fails
WatcherStep == WatcherWaitOk \/ WatcherWaitErr \/ WatcherWrite \/ WatcherWriteFail

\* a step of the consumer that needs no failure to happen: a chunk is there
\* and read, or exec returns after the loop
ConsumerStep == ConsumerRead \/ ExecReturn

\* the program with its threads scheduled fairly: a child that runs ends,
\* the watcher thread and the consumer each take the step they can take
FairSpec ==
    /\ Spec
    /\ WF_vars(ChildEnds)
    /\ WF_vars(WatcherStep)
    /\ WF_vars(ConsumerStep)

\* C16: with the child exiting and the watcher and the consumer scheduled
\* fairly, the consumer never blocks forever in mux.read(): an invocation
\* that is in the read loop eventually leaves it, also when the watcher's
\* write of the done-chunk fails or the wait itself fails.
C16_NeverBlocksForever == (pc = "loop") ~> (pc # "loop")

---------------------------------------------------------------------------
(* C17 *)

\* a step of the child or of the watcher thread: the consumer stays where
\* it is and the child's or the watcher's state moves
C17_OtherThread == pc' = pc /\ (child' # child \/ watcher' # watcher)

\* C17: the status register and the report flag are changed by the consumer
\* thread only: no step of the watcher or of the child changes either, so
\* between two steps of the consumer both keep their values.
C17_ConsumerOwnsState ==
    [][C17_OtherThread => (status' = status /\ report' = report)]_vars

\* the consumer has forwarded a chunk (the flag is used), the status is
\* still 0, and the child and the watcher have run to their ends meanwhile
C17_Witness ==
    /\ pc = "loop"
    /\ report.used
    /\ status = OK
    /\ child.state = "exited"
    /\ child.st.n # 0
    /\ watcher.pc = "done"
    /\ Len(sent["d"]) = 1

---------------------------------------------------------------------------
(* C18 *)

\* C18, the states: where exec has been called and where the read loop has
\* not read anything yet, the register holds 0.
C18_State ==
    /\ pc \in {"exec", "spawn_failed"} => status = OK
    /\ (pc = "loop" /\ readLog = <<>>) => status = OK

\* C18, the steps: the step that lists a file, names it under --test or
\* calls exec for it leaves the register at 0.
C18_Step ==
    /\ (pc = "run" /\ pc' = "exec") => status' = OK
    /\ (pc = "run" /\ Len(acts') = Len(acts) + 1
          /\ acts'[Len(acts')].what \in {"list", "test"}) => status' = OK

\* C18: the status register is reset before each file is processed: for
\* every file the run reaches and acts on, whatever the status the file
\* before left and whatever the options, the register holds 0 when that
\* file's invocation (list, test or execution) begins.
C18_ResetPerFile == [](C18_State) /\ [][C18_Step]_vars

\* exec is called for the second file after the first one resolved to a
\* non-zero status
C18_Witness ==
    /\ pc = "exec"
    /\ idx = 2
    /\ failed
    /\ ~opt.exit_on_error
    /\ status = OK

---------------------------------------------------------------------------
(* C19 *)

\* C19, the states: wherever the run is between two exec calls there is no
\* child that has not exited, and a loop that has terminated has a child
\* that has exited; the files are in ascending path order, descending under
\* --reverse, and are acted on in that order, each once.
C19_State ==
    /\ pc \in {"run", "exec", "spawn_failed", "exited"} => child.state # "running"
    /\ pc = "terminated" => child.state = "exited"
    /\ \A i, j \in 1..Len(files) :
           i < j => IF opt.reverse THEN files[i] > files[j] ELSE files[i] < files[j]
    /\ Len(acts) <= Len(files)
    /\ \A i \in 1..Len(acts) : acts[i].file = files[i]

\* C19, the steps: a child starts running only in an exec call made from
\* the run loop, when no other child of the run is there.
C19_Step ==
    (child.state # "running" /\ child'.state = "running") =>
        (pc = "exec" /\ child.state = "none" /\ pc' = "loop")

\* C19: children never overlap: the child for the next file is spawned only
\* after the read loop of the invocation before has terminated, and as the
\* done-chunk is written only after wait has returned, at most one child
\* that has not exited exists at any time; the files are taken in sorted
\* path order, reversed under --reverse.
C19_NoOverlap == [](C19_State) /\ [][C19_Step]_vars

\* under --reverse the second child runs, after the first file's invocation
\* came to its end; the files are in descending order
C19_Witness ==
    /\ pc = "loop"
    /\ opt.reverse
    /\ idx = 2
    /\ child.state = "running"
    /\ Len(acts) = 2
    /\ acts[1].what = "exec"
    /\ acts[1].file > acts[2].file

---------------------------------------------------------------------------
(* C20 *)

\* the run went through all its files without --exit-on-error
C20_RunOver == ~opt.exit_on_error /\ acts # <<>> /\ Len(acts) = Len(files)

\* C20, the states: the register is always within 0..255; after a file that
\* was listed, named under --test or found not executable it holds 0,
\* whatever the files before resolved to, and so does it when the last
\* file's child exited with 0; the exit code of a run that went through all
\* its files is the register, hence 0 in list and test mode.
C20_State ==
    /\ status \in 0..255
    /\ (pc = "run" /\ acts # <<>>
          /\ acts[Len(acts)].what \in {"list", "test", "nonexec"}) => status = OK
    /\ (pc = "terminated" /\ ExitedWith(0)) => status = OK
    /\ (pc = "exited" /\ C20_RunOver) =>
           /\ exitCode = status
           /\ (opt.list \/ opt.test) => exitCode = OK
           /\ acts[Len(acts)].what \in {"list", "test", "nonexec"} => exitCode = OK

\* C20, the steps: what the last invocation resolved stays in the register
\* until the process exits with it.
C20_Step ==
    /\ (pc = "terminated" /\ pc' = "run") => status' = status
    /\ (pc = "run" /\ pc' = "exited") => (status' = status /\ exitCode' = status)

\* C20: without --exit-on-error the exit code of the process is the status
\* resolved for the last file acted on, alone: 0 when that file exits 0, is
\* not executable or the run is in list or test mode, whatever non-zero
\* statuses earlier files resolved to; and the status resolved by one
\* invocation always lies in 0..255.
C20_LastFileDecides == [](C20_State) /\ [][C20_Step]_vars

\* an earlier file resolved to a non-zero status, the last file was run and
\* the process has exited with 0
C20_Witness ==
    /\ pc = "exited"
    /\ C20_RunOver
    /\ failed
    /\ acts[Len(acts)].what = "exec"
    /\ exitCode = OK

===========================================================================
